---- MODULE Spec2Model ----
(***************************************************************************)
(* Model of the browser front end of the facial attendance system: the     *)
(* capture loop of CameraInterface.js (captureAndRecognize and its two     *)
(* refs), the attendance store of utils/attendanceUtils.js (addFace,       *)
(* getTodaysFaces, deleteAttendance, cleanupOldData) and the session       *)
(* handling of App.js (handleLogin, handleLogout, page switches).          *)
(*                                                                         *)
(* localStorage is the variables token, user, user_email and               *)
(* attendanceData (one map per owner e-mail).  The remote services are     *)
(* the environment: every response they can give is an input of the        *)
(* action that handles it.  Every await of the code is a boundary between  *)
(* two actions; everything between two awaits is one atomic action.        *)
(***************************************************************************)
EXTENDS Integers, Sequences, FiniteSets, TLC

VARIABLES
    clock,              \* Date.now(), in ms since the epoch of the model
    tz,                 \* offset of local time from UTC, in ms (fixed per run)
    locale,             \* the browser's locale, which fixes the format of toLocaleString
    roster,             \* the students registered with the recognizer (fixed per run)
    token,              \* localStorage 'token'
    user,               \* localStorage 'user' (the e-mail of the stored user object)
    user_email,         \* localStorage 'user_email'
    attendanceData,     \* localStorage 'attendanceData_<email>': owner -> (day -> entries)
    page,               \* the route shown: "login", "camera" or "register"
    inst,               \* id of the CameraInterface instance mounted last
    mountedAt,          \* clock at which that instance was mounted
    lastRecognitionRef, \* lastRecognitionRef.current of that instance
    isRecognizingRef,   \* isRecognizingRef.current of that instance
    todaysFaces,        \* its todaysFaces state (the displayed list)
    calls,              \* captureAndRecognize invocations suspended at an await
    deletes,            \* deleteAttendance invocations suspended at axios.post (with, as
                        \* history, the entries stored since each was sent)
    posts,              \* number of POST /recognize requests issued so far
    granted,            \* number of invocations that passed the throttle so far
    deleteCalls,        \* number of deleteAttendance calls so far
    event               \* what the last step did (history, read by the properties only)

vars == <<clock, tz, locale, roster, token, user, user_email, attendanceData, page, inst, mountedAt,
          lastRecognitionRef, isRecognizingRef, todaysFaces, calls, deletes, posts,
          granted, deleteCalls, event>>

-----------------------------------------------------------------------------
(* Program constants *)

MinInterval == 10000
SamplingPeriod == 5000
RequestTimeout == 10000
MaxEntries == 50
DaysToKeep == 7
DayMs == 86400000

(* Bounds of the model *)

MaxOps == 3             \* granted captures, delete clicks and remounts in a run
BigExtra == 1           \* the largest response names MaxEntries + BigExtra identities
StartDay == 20          \* the run opens 5 s before UTC day StartDay begins; days and
                        \* ms are counted from an epoch that lies StartDay days back

NoVal == "<undefined>"  \* an absent key, an omitted field, an undefined return value
NoNum == -1             \* an omitted numeric field

Users == {"a@x.org", "b@x.org"}

\* Date.now() when the run opens.  The refs' initial 0 is 1970-01-01 on the real
\* clock; on the model's shorter clock it is still more than MinInterval ms back
StartClock == StartDay * DayMs - 5000
\* the instants, in ms after StartClock, at which a run looks at the program
Instants == {0, 5000, 9999, 10000}
TimeZone == 19800000       \* the browser's offset from UTC in ms: UTC+05:30

-----------------------------------------------------------------------------
(* Dates *)

\* new Date().toISOString().split('T')[0]: the UTC calendar day of an instant
ISODate(now) == now \div DayMs

\* new Date(date) for a 'YYYY-MM-DD' key: UTC midnight of that day
DateOfKey(day) == day * DayMs

\* new Date().toLocaleString(): local wall-clock time, to the second
LocaleString(now, zone) == (now + zone) \div 1000

\* the locales of the browser: "en-US" writes a date month first ("11/20/2026,
\* 5:29:55 AM"), "en-IN" day first ("20/11/2026, 5:29:55 am")
Locales == {"en-US", "en-IN"}

\* the time value of an Invalid Date (NaN)
InvalidDate == -2

\* new Date(timestamp) for a string made by toLocaleString: the parser reads the
\* first number as the month, so a day-first string of a day after the 12th of
\* its month, as the days of these runs are, gives an Invalid Date
ParseLocale(stamp, zone) ==
    IF locale = "en-US" THEN stamp * 1000 - zone ELSE InvalidDate

\* the local calendar day a timestamp string shows
LocalDayOfStamp(stamp) == stamp \div 86400

Falsy(s) == s = NoVal \/ s = ""

-----------------------------------------------------------------------------
(* The attendance store: utils/attendanceUtils.js.  An operation takes the   *)
(* part of localStorage it reads as the record ls = [user_email, user, data] *)
(* and returns the record it leaves behind.                                  *)

Storage == [user_email |-> user_email, user |-> user, data |-> attendanceData]

\* storedData[day] || []
PartitionOf(storedData, day) == IF day \in DOMAIN storedData THEN storedData[day] ELSE <<>>

\* a write that builds the map anew with the one partition in it
WithPartitionOnly(storedData, day, entries) ==
    [d \in {day} |-> entries]

\* storedData[day] = entries
WithPartition(storedData, day, entries) ==
    [d \in DOMAIN storedData \cup {day} |-> IF d = day THEN entries ELSE storedData[d]]

\* localStorage.setItem(`attendanceData_${owner}`, JSON.stringify(storedData))
SetItem(ls, owner, storedData) ==
    [ls EXCEPT !.data = [ls.data EXCEPT ![owner] = storedData]]

\* a setUserEmail that returns the e-mail without storing it
SetUserEmailUnsaved(ls) ==
    [ls |-> ls, ret |-> ls.user]

\* setUserEmail: copies the e-mail of the stored user object to 'user_email'
SetUserEmail(ls) ==
    IF ls.user # NoVal
    THEN [ls |-> [ls EXCEPT !.user_email = ls.user], ret |-> ls.user]
    ELSE [ls |-> ls, ret |-> NoVal]

\* a duplicate test that wants both fields to match (&& written for ||)
IsDuplicateBoth(entries, recognizedFace) ==
    \E i \in 1..Len(entries) :
        /\ entries[i].roll_number = recognizedFace.roll_number
        /\ entries[i].name = recognizedFace.name

\* a duplicate test that looks at the roll number alone
IsDuplicateRoll(entries, recognizedFace) ==
    \E i \in 1..Len(entries) : entries[i].roll_number = recognizedFace.roll_number

\* storedData[today].some(face => face.roll_number === ... || face.name === ...)
IsDuplicate(entries, recognizedFace) ==
    \E i \in 1..Len(entries) :
        \/ entries[i].roll_number = recognizedFace.roll_number
        \/ entries[i].name = recognizedFace.name

\* a truncation that keeps the head of the list (slice(0, 50) written for slice(-50))
SliceHead(entries) ==
    IF Len(entries) > MaxEntries THEN SubSeq(entries, 1, MaxEntries) ELSE entries

\* a truncation that keeps the newest entry alone (slice(-1))
SliceLast(entries) ==
    SubSeq(entries, Len(entries), Len(entries))

\* entries.slice(-MaxEntries) when entries.length > MaxEntries
Slice(entries) ==
    IF Len(entries) > MaxEntries
    THEN SubSeq(entries, Len(entries) - MaxEntries + 1, Len(entries))
    ELSE entries

\* { ...recognizedFace, timestamp, confidence: ... || 0, status: ... || 'Recognized' }
NewEntry(recognizedFace, now, zone) ==
    [recognizedFace EXCEPT
        !.timestamp = LocaleString(now, zone),
        !.confidence = IF recognizedFace.confidence \in {NoNum, 0}
                       THEN 0 ELSE recognizedFace.confidence,
        !.status = IF Falsy(recognizedFace.status)
                   THEN "Recognized" ELSE recognizedFace.status]

\* addFace(recognizedFace): ret is <<newEntry>>, or <<>> for undefined
AddFace(ls, recognizedFace, now, zone) ==
    IF Falsy(recognizedFace.name) \/ Falsy(recognizedFace.roll_number)
    THEN [ls |-> ls, ret |-> <<>>]
    ELSE
        LET today == ISODate(now)
            resolved == IF ls.user_email = NoVal
                        THEN SetUserEmail(ls)
                        ELSE [ls |-> ls, ret |-> ls.user_email]
            userEmail == resolved.ret
        IN  IF userEmail = NoVal
            THEN [ls |-> resolved.ls, ret |-> <<>>]
            ELSE
                LET storedData == resolved.ls.data[userEmail]
                    entries == PartitionOf(storedData, today)
                    newEntry == NewEntry(recognizedFace, now, zone)
                IN  IF ~IsDuplicate(entries, recognizedFace)
                    THEN [ls |-> SetItem(resolved.ls, userEmail,
                                    WithPartition(storedData, today,
                                        Slice(Append(entries, newEntry)))),
                          ret |-> <<newEntry>>]
                    ELSE [ls |-> resolved.ls, ret |-> <<>>]

\* Array.prototype.sort with (a, b) => new Date(b.timestamp) - new Date(a.timestamp):
\* a stable sort, most recent first.  Before(entries, zone, i, j): entry i ends up
\* ahead of entry j
Before(entries, zone, i, j) ==
    LET a == ParseLocale(entries[i].timestamp, zone)
        b == ParseLocale(entries[j].timestamp, zone)
        \* a comparator value of NaN counts as +0
        diff == IF a = InvalidDate \/ b = InvalidDate THEN 0 ELSE a - b
    IN  diff > 0 \/ (diff = 0 /\ i < j)

SortByTime(entries, zone) ==
    LET n == Len(entries)
        ahead == [j \in 1..n |-> Cardinality({i \in 1..n : Before(entries, zone, i, j)})]
    IN  [k \in 1..n |-> entries[CHOOSE j \in 1..n : ahead[j] = k - 1]]

\* getTodaysFaces()
GetTodaysFaces(ls, now, zone) ==
    IF ls.user_email = NoVal
    THEN <<>>
    ELSE SortByTime(PartitionOf(ls.data[ls.user_email], ISODate(now)), zone)

\* a getTodaysFaces that writes the sorted list back to the store
GetTodaysFacesSaving(ls, now, zone) ==
    IF ls.user_email = NoVal
    THEN ls
    ELSE SetItem(ls, ls.user_email,
             WithPartition(ls.data[ls.user_email], ISODate(now), GetTodaysFaces(ls, now, zone)))

\* localStorage once getTodaysFaces() has returned: it sorts the array that
\* JSON.parse built for it and never calls setItem
AfterGetTodaysFaces(ls, now, zone) == ls

\* a filter with its test turned round (=== written for !==)
FilterRollOnly(entries, rollNumber) ==
    LET keep(face) == face.roll_number = rollNumber
    IN  SelectSeq(entries, keep)

\* storedData[today].filter(face => face.roll_number !== rollNumber)
FilterRoll(entries, rollNumber) ==
    LET keep(face) == face.roll_number # rollNumber
    IN  SelectSeq(entries, keep)

\* a clean-up that keeps the entry and marks it (a soft delete)
RemoveByRollMarking(ls, userEmail, rollNumber, now) ==
    LET today == ISODate(now)
        storedData == ls.data[userEmail]
    IN  IF today \in DOMAIN storedData
        THEN SetItem(ls, userEmail,
                 WithPartition(storedData, today,
                     [i \in 1..Len(storedData[today]) |->
                         IF storedData[today][i].roll_number = rollNumber
                         THEN [storedData[today][i] EXCEPT !.status = "Deleted"]
                         ELSE storedData[today][i]]))
        ELSE ls

\* a clean-up that writes today's partition back empty
RemoveByRollAll(ls, userEmail, rollNumber, now) ==
    SetItem(ls, userEmail, WithPartition(ls.data[userEmail], ISODate(now), <<>>))

\* the local clean-up of deleteAttendance once the response counts as a success
RemoveByRoll(ls, userEmail, rollNumber, now) ==
    LET today == ISODate(now)
        storedData == ls.data[userEmail]
    IN  IF today \in DOMAIN storedData
        THEN SetItem(ls, userEmail,
                 WithPartition(storedData, today, FilterRoll(storedData[today], rollNumber)))
        ELSE ls

\* response.data.status === 'success' || response.status === 200
IsSuccessful(response) ==
    response.data_status = "success" \/ response.status = 200

\* a clean-up that subtracts the wrong way round (new Date(date) - today)
CleanupOldDataReversed(ls, daysToKeep, now) ==
    IF ls.user_email = NoVal
    THEN [ls |-> ls, ret |-> NoVal, removedDates |-> 0]
    ELSE
        LET storedData == ls.data[ls.user_email]
            old == {d \in DOMAIN storedData : DateOfKey(d) - now > daysToKeep * DayMs}
        IN  [ls |-> SetItem(ls, ls.user_email,
                        [d \in DOMAIN storedData \ old |-> storedData[d]]),
             ret |-> NoVal, removedDates |-> Cardinality(old)]

\* a clean-up whose age test is off by one (>= written for >)
CleanupOldDataInclusive(ls, daysToKeep, now) ==
    IF ls.user_email = NoVal
    THEN [ls |-> ls, ret |-> NoVal, removedDates |-> 0]
    ELSE
        LET storedData == ls.data[ls.user_email]
            old == {d \in DOMAIN storedData : now - DateOfKey(d) >= daysToKeep * DayMs}
        IN  [ls |-> SetItem(ls, ls.user_email,
                        [d \in DOMAIN storedData \ old |-> storedData[d]]),
             ret |-> NoVal, removedDates |-> Cardinality(old)]

\* cleanupOldData(daysToKeep): it has no return statement, so ret is undefined;
\* removedDates is the count it writes to the console
CleanupOldData(ls, daysToKeep, now) ==
    IF ls.user_email = NoVal
    THEN [ls |-> ls, ret |-> NoVal, removedDates |-> 0]
    ELSE
        LET storedData == ls.data[ls.user_email]
            \* (today - new Date(date)) / (1000 * 3600 * 24) > daysToKeep
            old == {d \in DOMAIN storedData : now - DateOfKey(d) > daysToKeep * DayMs}
        IN  [ls |-> SetItem(ls, ls.user_email,
                        [d \in DOMAIN storedData \ old |-> storedData[d]]),
             ret |-> NoVal, removedDates |-> Cardinality(old)]

-----------------------------------------------------------------------------
(* What the remote services can answer *)

Identity(n, r, c, s) == [name |-> n, roll_number |-> r, confidence |-> c, status |-> s]

\* a response naming k distinct students
BigList(k) == [i \in 1..k |-> Identity("s" \o ToString(i), ToString(100 + i), 90, "Present")]

\* the JSON arrays POST /recognize answers with: a class of a few students, some
\* of them returned with fields missing, or a school of more than MaxEntries
RecognizedLists(students) ==
    IF students = "class"
    THEN { <<>>,
           <<Identity("Alice", "1", 90, "Present")>>,
           <<Identity("Carol", "1", 70, "Present"), Identity("Bob", "2", 80, NoVal),
             Identity("Alice", "3", NoNum, "Present"), Identity(NoVal, "4", 60, "Present"),
             Identity("Dan", NoVal, 60, "Present"), Identity("  ", "5", 0, "")>> }
    ELSE { BigList(MaxEntries),
           <<Identity("Zoe", "999", 90, "Present")>>,
           BigList(MaxEntries + BigExtra) }

ErrorTags == {"no_students_registered", "no_face_encodings", "face_not_recognized",
              "face_detection_failed", "server_error", NoVal}

\* every way a POST /recognize can end.  http is "2xx" or "error" (any other code)
RecognizeResponses ==
    [kind : {"array"}, http : {"2xx"}, data : RecognizedLists(roster)]
    \cup [kind : {"object"}, http : {"2xx", "error"}, status : ErrorTags,
          error : {"Server says no"}]
    \cup [kind : {"object"}, http : {"error"}, status : {NoVal}, error : {NoVal}]
    \cup [kind : {"none"}, http : {"network", "timeout"}]

\* every way a POST /delete_attendance can end
DeleteResponses ==
    [kind : {"object"}, status : {200, 201, 500}, data_status : {"success", "error"}]
    \cup [kind : {"none"}, status : {0}, data_status : {NoVal}]

-----------------------------------------------------------------------------
(* Notifications: react-toastify *)

Toast(type, message) == [type |-> type, message |-> message]

\* a handler whose default entry is a warning
HandleRecognitionErrorDefaultWarn(errorStatus, errorMessage) ==
    CASE errorStatus = "no_students_registered" ->
            Toast("warning", "No students registered. Please add students first.")
      [] errorStatus = "no_face_encodings" ->
            Toast("warning", "No student faces registered. Please register student faces.")
      [] errorStatus = "face_not_recognized" ->
            Toast("warning", "Face not recognized. Please register this student.")
      [] errorStatus = "face_detection_failed" ->
            Toast("error", "No face detected. Please ensure your face is clearly visible.")
      [] OTHER ->
            Toast("warning", IF Falsy(errorMessage) THEN "Recognition failed" ELSE errorMessage)

\* a handler that ignores the type of the entry and always calls toast.error
HandleRecognitionErrorAllError(errorStatus, errorMessage) ==
    CASE errorStatus = "no_students_registered" ->
            Toast("error", "No students registered. Please add students first.")
      [] errorStatus = "no_face_encodings" ->
            Toast("error", "No student faces registered. Please register student faces.")
      [] errorStatus = "face_not_recognized" ->
            Toast("error", "Face not recognized. Please register this student.")
      [] errorStatus = "face_detection_failed" ->
            Toast("error", "No face detected. Please ensure your face is clearly visible.")
      [] OTHER ->
            Toast("error", IF Falsy(errorMessage) THEN "Recognition failed" ELSE errorMessage)

\* handleRecognitionError(errorStatus, errorMessage): the toast it raises
HandleRecognitionError(errorStatus, errorMessage) ==
    CASE errorStatus = "no_students_registered" ->
            Toast("warning", "No students registered. Please add students first.")
      [] errorStatus = "no_face_encodings" ->
            Toast("warning", "No student faces registered. Please register student faces.")
      [] errorStatus = "face_not_recognized" ->
            Toast("warning", "Face not recognized. Please register this student.")
      [] errorStatus = "face_detection_failed" ->
            Toast("error", "No face detected. Please ensure your face is clearly visible.")
      [] OTHER ->
            Toast("error", IF Falsy(errorMessage) THEN "Recognition failed" ELSE errorMessage)

\* the operations a run has spent of its MaxOps: invocations of captureAndRecognize
\* that passed the throttle, calls of deleteAttendance, mounts after the first
Ops == granted + deleteCalls + (inst - 1)

\* the record left in event by a step: what ran, how it ended, the input it handled,
\* the toasts it raised, and the values it found in the storage and in the throttle
Ev(op, result, input, toasts) ==
    [op |-> op, result |-> result, input |-> input, toasts |-> toasts,
     before |-> [attendanceData |-> attendanceData, user_email |-> user_email,
                 lastRecognitionRef |-> lastRecognitionRef,
                 isRecognizingRef |-> isRecognizingRef,
                 calls |-> calls, posts |-> posts]]

-----------------------------------------------------------------------------
(* Initial state: a@x.org is logged in and the page was loaded              *)
(* SamplingPeriod ms ago, so App started authenticated, mounted the camera  *)
(* page, and the first tick of its interval is due now.  With history,      *)
(* a@x.org left three day-partitions of earlier days in this browser;       *)
(* without, the store is empty.  b@x.org has never used this browser.       *)

OldEntry(day, zone) ==
    [name |-> "Alice", roll_number |-> "1", confidence |-> 90, status |-> "Present",
     timestamp |-> LocaleString(DateOfKey(day) + 43200000 - zone, zone), by |-> "a@x.org"]

OldPartitions(zone) ==
    [d \in {StartDay - 9, StartDay - 8, StartDay - 7} |-> <<OldEntry(d, zone)>>]

NoPartitions == [d \in {} |-> <<>>]

InitWith(students, history, language) ==
    /\ clock = StartClock
    /\ tz = TimeZone
    /\ language \in Locales
    /\ locale = language
    /\ roster = students
    /\ token = "a@x.org"
    /\ user = "a@x.org"
    /\ user_email = "a@x.org"
    /\ attendanceData =
          [u \in Users |-> IF history /\ u = "a@x.org"
                           THEN OldPartitions(tz) ELSE NoPartitions]
    /\ page = "camera"
    /\ inst = 1
    /\ mountedAt = StartClock - SamplingPeriod
    /\ lastRecognitionRef = 0
    /\ isRecognizingRef = FALSE
    /\ todaysFaces = <<>>
    /\ calls = {}
    /\ deletes = {}
    /\ posts = 0
    /\ granted = 0
    /\ deleteCalls = 0
    /\ event = [op |-> "load", result |-> "", input |-> NoVal, toasts |-> <<>>,
                before |-> [attendanceData |-> attendanceData, user_email |-> "a@x.org",
                            lastRecognitionRef |-> 0, isRecognizingRef |-> FALSE,
                            calls |-> {}, posts |-> 0]]

-----------------------------------------------------------------------------
(* Session and routing: App.js *)

\* a mount whose effect does not load the stored list
MountEmpty(ls) ==
    /\ Ops < MaxOps
    /\ inst' = inst + 1
    /\ mountedAt' = clock
    /\ lastRecognitionRef' = 0
    /\ isRecognizingRef' = FALSE
    /\ todaysFaces' = <<>>
    /\ attendanceData' = ls.data
    /\ page' = "camera"

\* a CameraInterface is mounted: fresh refs, and the mount effect loads the list
Mount(ls) ==
    /\ Ops < MaxOps
    /\ inst' = inst + 1
    /\ mountedAt' = clock
    /\ lastRecognitionRef' = 0
    /\ isRecognizingRef' = FALSE
    /\ todaysFaces' = GetTodaysFaces(ls, clock, tz)
    /\ attendanceData' = AfterGetTodaysFaces(ls, clock, tz).data
    /\ page' = "camera"

\* AuthPage.handleSubmit on a successful login response, then App.handleLogin
HandleLogin(u) ==
    /\ page = "login"
    /\ token' = u
    /\ user' = u
    /\ user_email' = u
    /\ Mount([Storage EXCEPT !.user_email = u, !.user = u])
    /\ event' = Ev("login", "", u, <<Toast("success", "Welcome")>>)
    /\ UNCHANGED <<clock, tz, locale, roster, calls, deletes, posts, granted, deleteCalls>>

\* App.handleLogout: the routes fall back to /login, the camera page unmounts
HandleLogout ==
    /\ page # "login"
    /\ token' = NoVal
    /\ user' = NoVal
    /\ page' = "login"
    /\ event' = Ev("logout", "", NoVal, <<Toast("info", "You have been logged out.")>>)
    /\ UNCHANGED <<clock, tz, locale, roster, user_email, attendanceData, inst, mountedAt, lastRecognitionRef,
                   isRecognizingRef, todaysFaces, calls, deletes, posts, granted, deleteCalls>>

\* the NavBar link to /register: the camera page unmounts
GoRegister ==
    /\ page = "camera"
    /\ page' = "register"
    /\ event' = Ev("register", "", NoVal, <<>>)
    /\ UNCHANGED <<clock, tz, locale, roster, token, user, user_email, attendanceData, inst, mountedAt,
                   lastRecognitionRef, isRecognizingRef, todaysFaces, calls, deletes, posts,
                   granted, deleteCalls>>

\* localStorage 'access_token': no statement of the application writes this key
access_token == NoVal

\* RegisterFace.handleSubmit: filled tells whether validateInputs passes (a name
\* of letters, a roll number of digits, a captured image)
HandleSubmit(filled) ==
    /\ page = "register"
    /\ event' =
         IF ~filled
         THEN Ev("submit", "invalid", filled, <<Toast("error", "Name is required")>>)
         ELSE IF Falsy(access_token)
         THEN Ev("submit", "no token", filled,
                 <<Toast("error", "Authentication token not found. Please log in again.")>>)
         ELSE Ev("submit", "sent", filled, <<>>)
    /\ UNCHANGED <<clock, tz, locale, roster, token, user, user_email, attendanceData, page, inst,
                   mountedAt, lastRecognitionRef, isRecognizingRef, todaysFaces, calls, deletes,
                   posts, granted, deleteCalls>>

\* the NavBar link to /camera: a new CameraInterface mounts
GoCamera ==
    /\ page = "register"
    /\ Mount(Storage)
    /\ event' = Ev("camera", "", NoVal, <<>>)
    /\ UNCHANGED <<clock, tz, locale, roster, token, user, user_email, calls, deletes, posts,
                   granted, deleteCalls>>

\* the page is reloaded: the script context goes and with it every suspended
\* call; App starts again from localStorage, which is as it was, and on the camera
\* route a new CameraInterface mounts
Reload ==
    /\ calls' = {}
    /\ deletes' = {}
    /\ IF page = "camera"
       THEN Mount(Storage)
       ELSE UNCHANGED <<page, inst, mountedAt, lastRecognitionRef, isRecognizingRef,
                        todaysFaces, attendanceData>>
    /\ event' = Ev("reload", "", NoVal, <<>>)
    /\ UNCHANGED <<clock, tz, locale, roster, token, user, user_email, posts, granted,
                   deleteCalls>>

\* time passes up to the next instant t; turning the screenshot into a blob takes
\* less than the shortest step
Advance(t) ==
    /\ StartClock + t > clock
    /\ \A c \in calls : c.phase # "blob"
    /\ clock' = StartClock + t
    /\ event' = Ev("advance", "", NoVal, <<>>)
    /\ UNCHANGED <<tz, locale, roster, token, user, user_email, attendanceData, page, inst, mountedAt,
                   lastRecognitionRef, isRecognizingRef, todaysFaces, calls, deletes, posts,
                   granted, deleteCalls>>

-----------------------------------------------------------------------------
(* The capture loop: CameraInterface.js, captureAndRecognize.  It suspends  *)
(* at fetch(imageSrc)/blob() and at axios.post; a record of calls is one    *)
(* invocation suspended there: inst is the instance whose refs its closure  *)
(* holds, now the Date.now() it read, token the bearer token it sent.  The  *)
(* request leaves in the same millisecond, so its timeout counts from now.  *)

\* a throttle without its second early return: the flag alone decides
DeniedByFlagOnly(now) ==
    isRecognizingRef

\* a throttle without its first early return: the elapsed time alone decides
DeniedByTimeOnly(now) ==
    now - lastRecognitionRef < MinInterval

\* a throttle whose interval test is off by one (<= written for <)
DeniedInclusive(now) ==
    \/ isRecognizingRef
    \/ now - lastRecognitionRef <= MinInterval

\* the head of captureAndRecognize: the two early returns of the throttle
Denied(now) ==
    \/ isRecognizingRef
    \/ now - lastRecognitionRef < MinInterval

\* a completion that leaves the flag as it is (no finally block)
NoRelease(c) ==
    UNCHANGED isRecognizingRef

\* the finally block: the flag of the closure's own instance is reset
Release(c) ==
    isRecognizingRef' = IF c.inst = inst THEN FALSE ELSE isRecognizingRef

\* a tick of setInterval(captureAndRecognize, 5000) on the mounted instance;
\* shot tells whether webcamRef.current.getScreenshot() returns an image
Tick(shot) ==
    /\ page = "camera"
    /\ clock >= mountedAt + SamplingPeriod
    /\ IF Denied(clock)
       THEN /\ event' = Ev("tick", "denied", shot, <<>>)
            /\ UNCHANGED <<isRecognizingRef, calls, granted>>
       ELSE /\ Ops < MaxOps
            /\ granted' = granted + 1
            /\ IF shot
               THEN /\ isRecognizingRef' = TRUE
                    /\ calls' = calls \cup {[inst |-> inst, phase |-> "blob", now |-> clock,
                                             token |-> NoVal]}
                    /\ event' = Ev("tick", "granted", shot, <<>>)
               ELSE /\ isRecognizingRef' = FALSE
                    /\ calls' = calls
                    /\ event' = Ev("tick", "no image", shot,
                                   <<HandleRecognitionError("face_detection_failed",
                                                            "Failed to capture image")>>)
    /\ UNCHANGED <<clock, tz, locale, roster, token, user, user_email, attendanceData, page, inst, mountedAt,
                   lastRecognitionRef, todaysFaces, deletes, posts, deleteCalls>>

\* a token test that lets every value through
HasTokenAlways(t) == TRUE

\* if (!token): whether localStorage held a token to send
HasToken(t) == ~Falsy(t)

\* the image blob is ready (fetched = TRUE) or fetch(imageSrc) rejected: the
\* token is read and the POST /recognize is issued
BlobDone(c, fetched) ==
    /\ c \in calls
    /\ c.phase = "blob"
    /\ IF fetched /\ HasToken(token)
       THEN /\ calls' = (calls \ {c}) \cup
                            {[c EXCEPT !.phase = "post", !.token = token]}
            /\ posts' = posts + 1
            /\ event' = Ev("blob", "sent", [c |-> c, fetched |-> fetched], <<>>)
            /\ UNCHANGED isRecognizingRef
       ELSE /\ calls' = calls \ {c}
            /\ posts' = posts
            /\ Release(c)
            /\ event' =
                 IF fetched
                 THEN Ev("blob", "no token", [c |-> c, fetched |-> fetched],
                         <<HandleRecognitionError("default",
                              "No authentication token found. Please log in again.")>>)
                 ELSE Ev("blob", "fetch failed", [c |-> c, fetched |-> fetched],
                         <<HandleRecognitionError("default",
                              "Error setting up recognition request")>>)
    /\ UNCHANGED <<clock, tz, locale, roster, token, user, user_email, attendanceData, page, inst, mountedAt,
                   lastRecognitionRef, todaysFaces, deletes, granted, deleteCalls>>

\* the recognizedFace object built from one element of the response array
RecognizedFace(recognitionData, now, zone, by) ==
    [name |-> IF Falsy(recognitionData.name) THEN "Unknown" ELSE recognitionData.name,
     roll_number |-> IF Falsy(recognitionData.roll_number)
                     THEN "" ELSE recognitionData.roll_number,
     timestamp |-> LocaleString(now, zone),
     confidence |-> IF recognitionData.confidence \in {NoNum, 0}
                    THEN 0 ELSE recognitionData.confidence,
     status |-> IF Falsy(recognitionData.status) THEN "Unknown" ELSE recognitionData.status,
     by |-> by]

\* response.data.forEach(...) from element i on: the storage it leaves.  (The
\* comparison makes TLC finish each addFace before it starts the next one.)
RECURSIVE AddAll(_, _, _, _, _, _)
AddAll(ls, data, i, now, zone, by) ==
    IF i > Len(data) THEN ls
    ELSE LET added == AddFace(ls, RecognizedFace(data[i], now, zone, by), now, zone)
         IN  IF added.ls = ls
             THEN AddAll(ls, data, i + 1, now, zone, by)
             ELSE AddAll(added.ls, data, i + 1, now, zone, by)

\* the success toasts of the forEach, one per element
\* the objects onRecognizedFace is called with, one call per element, in order
RecognizedCallbacks(data, now, zone, by) ==
    [i \in 1..Len(data) |-> RecognizedFace(data[i], now, zone, by)]

\* toasts raised only for the identities that have a name and a roll number (the
\* toast moved behind the validation)
RecognizedToastsValid(data) ==
    LET valid(x) == ~Falsy(x.name) /\ ~Falsy(x.roll_number)
        kept == SelectSeq(data, valid)
    IN  [i \in 1..Len(kept) |-> Toast("success", "Recognized: " \o kept[i].name)]

RecognizedToasts(data) ==
    [i \in 1..Len(data) |->
        Toast("success",
              "Recognized: " \o (IF Falsy(data[i].name) THEN "Unknown" ELSE data[i].name))]

\* a completion that stamps the time only when the list names somebody (the
\* branch guarded by response.data.length as well)
StampedNonEmpty(c, r) ==
    IF r.kind = "array" /\ r.data # <<>> /\ c.inst = inst THEN c.now ELSE lastRecognitionRef

\* a completion that stamps the time whatever the outcome (the assignment moved
\* out of the array branch)
StampedAlways(c, r) ==
    IF c.inst = inst THEN c.now ELSE lastRecognitionRef

\* lastRecognitionRef.current = now, the last statement of the array branch: the
\* value the ref of the mounted instance holds once c has ended with r
Stamped(c, r) ==
    IF r.kind = "array" /\ c.inst = inst THEN c.now ELSE lastRecognitionRef

\* a catch block that sends the request once more when it failed
SettledRetry(c, r) ==
    IF r.kind = "array" THEN calls \ {c} ELSE (calls \ {c}) \cup {[c EXCEPT !.phase = "blob"]}

\* the invocations still suspended once c has ended with r: the catch block
\* reports the failure and falls through to finally, nothing is sent again
Settled(c, r) == calls \ {c}

\* every entry stored in the maps data, whoever owns it and whatever its day
EntriesOf(data) ==
    UNION {UNION {{data[u][d][i] : i \in 1..Len(data[u][d])} : d \in DOMAIN data[u]} : u \in Users}

\* the POST /recognize of c ends with response r
Respond(c, r) ==
    /\ c \in calls
    /\ c.phase = "post"
    /\ r.http = "timeout" <=> clock - c.now >= RequestTimeout
    /\ calls' = Settled(c, r)
    /\ Release(c)
    /\ lastRecognitionRef' = Stamped(c, r)
    /\ IF r.kind = "array"
       THEN LET ls == AddAll(Storage, r.data, 1, clock, tz, c.token)
            IN  /\ user_email' = ls.user_email
                /\ attendanceData' = AfterGetTodaysFaces(ls, clock, tz).data
                /\ todaysFaces' = IF c.inst = inst /\ page = "camera"
                                  THEN GetTodaysFaces(ls, clock, tz) ELSE todaysFaces
                /\ deletes' = {[d EXCEPT !.since = d.since \cup
                                                 (EntriesOf(ls.data) \ EntriesOf(attendanceData))] :
                                  d \in deletes}
                /\ event' = Ev("response", "recognized",
                               [c |-> c, r |-> r,
                                callbacks |-> RecognizedCallbacks(r.data, clock, tz, c.token)],
                               RecognizedToasts(r.data))
       ELSE /\ UNCHANGED <<user_email, attendanceData, todaysFaces, deletes>>
            /\ event' =
                 CASE r.kind = "none" ->
                        Ev("response", "no response", [c |-> c, r |-> r],
                           <<HandleRecognitionError("default",
                                "No response from server. Check your connection.")>>)
                   [] r.kind = "object" /\ r.http = "error" ->
                        Ev("response", "error response", [c |-> c, r |-> r],
                           <<HandleRecognitionError(r.status,
                                IF Falsy(r.error) THEN "Recognition failed" ELSE r.error)>>)
                   [] OTHER -> Ev("response", "ignored", [c |-> c, r |-> r], <<>>)
    /\ UNCHANGED <<clock, tz, locale, roster, token, user, page, inst, mountedAt, posts, granted,
                   deleteCalls>>

-----------------------------------------------------------------------------
(* Deleting: CameraInterface.handleDeleteAttendance around                  *)
(* attendanceUtils.deleteAttendance, which suspends at axios.post.          *)

\* the roll numbers of the cards on display, each with its delete button
DisplayedRolls == {todaysFaces[i].roll_number : i \in 1..Len(todaysFaces)}

\* the toast handleDeleteAttendance raises for the value deleteAttendance returned
DeleteToast(deleted) ==
    IF deleted
    THEN Toast("success", "Attendance deleted successfully")
    ELSE Toast("error", "Failed to delete attendance. Check console for details.")

\* an axios whose validateStatus accepts every status code
ResolvedAlways(r) == r.kind = "object"

\* await axios.post(...): the promise resolves for a response with a 2xx status and
\* rejects otherwise (other status, no response, timeout), which lands in the catch
Resolved(r) == r.kind = "object" /\ r.status \in 200..299

\* a deleteAttendance that does not look for the token before it sends
RefusedWithoutToken(rollNumber) ==
    Falsy(rollNumber) \/ user_email = NoVal

\* the two early returns of deleteAttendance: !rollNumber, !userEmail || !token
Refused(rollNumber) ==
    Falsy(rollNumber) \/ user_email = NoVal \/ token = NoVal

\* handleDeleteAttendance(rollNumber): deleteAttendance runs up to its axios.post,
\* or returns false before it
HandleDeleteAttendance(rollNumber) ==
    /\ Ops < MaxOps
    /\ deleteCalls' = deleteCalls + 1
    /\ IF Refused(rollNumber)
       THEN /\ deletes' = deletes
            /\ event' = Ev("delete", "refused", rollNumber, <<DeleteToast(FALSE)>>)
       ELSE /\ deletes' = deletes \cup
                    {[id |-> deleteCalls + 1, rollNumber |-> rollNumber,
                      userEmail |-> user_email, token |-> token, inst |-> inst,
                      since |-> {}]}
            /\ event' = Ev("delete", "sent", rollNumber, <<>>)
    /\ UNCHANGED <<clock, tz, locale, roster, token, user, user_email, attendanceData, page, inst, mountedAt,
                   lastRecognitionRef, isRecognizingRef, todaysFaces, calls, posts, granted>>

\* the state deletingRollNumber of useState(null): its setter is called in one
\* place, the finally of handleDeleteAttendance, with null, so it is null always
deletingRollNumber == NoVal

\* a click on the delete button of the card of roll number rollNumber, which is
\* disabled while deletingRollNumber === face.roll_number
DeleteClick(rollNumber) ==
    /\ page = "camera"
    /\ rollNumber \in DisplayedRolls
    /\ deletingRollNumber # rollNumber
    /\ HandleDeleteAttendance(rollNumber)

\* the POST /delete_attendance of d ends with response r: the rest of
\* deleteAttendance, then the rest of handleDeleteAttendance
DeleteRespond(d, r) ==
    /\ d \in deletes
    /\ LET deleted == Resolved(r) /\ IsSuccessful(r)
           ls == IF deleted
                 THEN RemoveByRoll(Storage, d.userEmail, d.rollNumber, clock)
                 ELSE Storage
       IN  /\ attendanceData' = IF deleted
                              THEN AfterGetTodaysFaces(ls, clock, tz).data ELSE ls.data
           /\ todaysFaces' = IF deleted /\ d.inst = inst /\ page = "camera"
                             THEN GetTodaysFaces(ls, clock, tz) ELSE todaysFaces
           /\ event' = Ev("delete response", IF deleted THEN "deleted" ELSE "failed",
                          [d |-> d, r |-> r],
                          <<DeleteToast(deleted)>>)
           /\ deletes' = {[x EXCEPT !.since =
                               IF deleted
                               THEN {e \in x.since : e.roll_number # d.rollNumber}
                               ELSE x.since] : x \in deletes \ {d}}
    /\ UNCHANGED <<clock, tz, locale, roster, token, user, user_email, page, inst, mountedAt,
                   lastRecognitionRef, isRecognizingRef, calls, posts, granted, deleteCalls>>

\* cleanupOldData() with its default retention
Cleanup ==
    /\ LET done == CleanupOldData(Storage, DaysToKeep, clock)
       IN  /\ attendanceData' = done.ls.data
           /\ event' = Ev("cleanup", done.ret, DaysToKeep, <<>>)
    /\ UNCHANGED <<clock, tz, locale, roster, token, user, user_email, page, inst, mountedAt,
                   lastRecognitionRef, isRecognizingRef, todaysFaces, calls, deletes, posts,
                   granted, deleteCalls>>

-----------------------------------------------------------------------------

\* the application as wired: nothing in it calls cleanupOldData
Next ==
    \/ \E u \in Users : HandleLogin(u)
    \/ HandleLogout
    \/ GoRegister
    \/ \E filled \in BOOLEAN : HandleSubmit(filled)
    \/ GoCamera
    \/ Reload
    \/ \E t \in Instants : Advance(t)
    \/ \E shot \in BOOLEAN : Tick(shot)
    \/ \E c \in calls, fetched \in BOOLEAN : BlobDone(c, fetched)
    \/ \E c \in calls, r \in RecognizeResponses : Respond(c, r)
    \/ \E rollNumber \in DisplayedRolls : DeleteClick(rollNumber)
    \/ \E d \in deletes, r \in DeleteResponses : DeleteRespond(d, r)

Init == InitWith("class", FALSE, "en-US")

Spec == Init /\ [][Next]_vars

\* one session of the capture loop in front of a school: the runs that fill a
\* day-partition
InitSchool == InitWith("school", FALSE, "en-US")

NextSchool ==
    \/ \E t \in Instants : Advance(t)
    \/ \E shot \in BOOLEAN : Tick(shot)
    \/ \E c \in calls, fetched \in BOOLEAN : BlobDone(c, fetched)
    \/ \E c \in calls, r \in RecognizeResponses : Respond(c, r)

SpecSchool == InitSchool /\ [][NextSchool]_vars

\* the same program in a browser that holds partitions of earlier days
InitReturning == InitWith("class", TRUE, "en-US")

\* ... in one session in which cleanupOldData is called at arbitrary moments
NextReturning ==
    \/ \E t \in Instants : Advance(t)
    \/ \E shot \in BOOLEAN : Tick(shot)
    \/ \E c \in calls, fetched \in BOOLEAN : BlobDone(c, fetched)
    \/ \E c \in calls, r \in RecognizeResponses : Respond(c, r)
    \/ \E rollNumber \in DisplayedRolls : DeleteClick(rollNumber)
    \/ \E d \in deletes, r \in DeleteResponses : DeleteRespond(d, r)
    \/ Cleanup

SpecReturning == InitReturning /\ [][NextReturning]_vars

\* the camera page in a browser whose locale writes the day first
InitDayFirst == InitWith("class", FALSE, "en-IN")

NextDayFirst ==
    \/ Reload
    \/ \E t \in Instants : Advance(t)
    \/ \E shot \in BOOLEAN : Tick(shot)
    \/ \E c \in calls, fetched \in BOOLEAN : BlobDone(c, fetched)
    \/ \E c \in calls, r \in RecognizeResponses : Respond(c, r)
    \/ \E rollNumber \in DisplayedRolls : DeleteClick(rollNumber)
    \/ \E d \in deletes, r \in DeleteResponses : DeleteRespond(d, r)

SpecDayFirst == InitDayFirst /\ [][NextDayFirst]_vars

\* addFace and deleteAttendance on their own, called with any argument on any
\* localStorage: 'user_email' set or not, a 'user' object and a token stored or
\* not, earlier partitions or none
FacesToAdd ==
    {[name |-> n, roll_number |-> r, timestamp |-> LocaleString(clock, tz),
      confidence |-> 90, status |-> "Present", by |-> token] :
        n \in {"Alice", "Bob", NoVal, ""}, r \in {"1", "2", NoVal, ""}}

AddFaceCall(recognizedFace) ==
    /\ LET done == AddFace(Storage, recognizedFace, clock, tz)
       IN  /\ user_email' = done.ls.user_email
           /\ attendanceData' = done.ls.data
           /\ event' = Ev("addFace", done.ret, recognizedFace, <<>>)
    /\ UNCHANGED <<clock, tz, locale, roster, token, user, page, inst, mountedAt,
                   lastRecognitionRef, isRecognizingRef, todaysFaces, calls, deletes, posts,
                   granted, deleteCalls>>

InitStore ==
    \E owner \in Users \cup {NoVal}, session \in Users \cup {NoVal}, history \in BOOLEAN :
        /\ clock = StartClock
        /\ tz = TimeZone
        /\ locale = "en-US"
        /\ roster = "class"
        /\ token = session
        /\ user = session
        /\ user_email = owner
        /\ attendanceData =
              [u \in Users |-> IF history /\ u = "a@x.org"
                               THEN OldPartitions(tz) ELSE NoPartitions]
        /\ page = "camera"
        /\ inst = 1
        /\ mountedAt = StartClock - SamplingPeriod
        /\ lastRecognitionRef = 0
        /\ isRecognizingRef = FALSE
        /\ todaysFaces = <<>>
        /\ calls = {}
        /\ deletes = {}
        /\ posts = 0
        /\ granted = 0
        /\ deleteCalls = 0
        /\ event = [op |-> "load", result |-> "", input |-> NoVal, toasts |-> <<>>,
                    before |-> [attendanceData |-> attendanceData, user_email |-> owner,
                                lastRecognitionRef |-> 0, isRecognizingRef |-> FALSE,
                                calls |-> {}, posts |-> 0]]

NextStore ==
    \/ \E recognizedFace \in FacesToAdd : AddFaceCall(recognizedFace)
    \/ \E rollNumber \in {"1", "2", "", NoVal} : HandleDeleteAttendance(rollNumber)
    \/ \E d \in deletes, r \in DeleteResponses : DeleteRespond(d, r)

SpecStore == InitStore /\ [][NextStore]_vars

\* the capture loop and the session under the scheduling the browser gives: a
\* pending fetch(imageSrc) settles, and a pending POST /recognize ends, with a
\* response, an error or its timeout
NextLoop ==
    \/ \E u \in Users : HandleLogin(u)
    \/ HandleLogout
    \/ \E t \in Instants : Advance(t)
    \/ \E shot \in BOOLEAN : Tick(shot)
    \/ \E c \in calls, fetched \in BOOLEAN : BlobDone(c, fetched)
    \/ \E c \in calls, r \in RecognizeResponses : Respond(c, r)

SpecLoop ==
    /\ Init
    /\ [][NextLoop]_vars
    /\ WF_vars(\E c \in calls, fetched \in BOOLEAN : BlobDone(c, fetched))
    /\ WF_vars(\E c \in calls, r \in RecognizeResponses : Respond(c, r))

-----------------------------------------------------------------------------
(* Properties *)

\* C1: whatever sequence of addFace calls and other store operations has run, no
\* day-partition of any owner holds two entries with the same roll_number, nor two
\* with the same name
C1_NoTwoAlike ==
    \A u \in Users : \A d \in DOMAIN attendanceData[u] :
        LET entries == attendanceData[u][d]
        IN  \A i, j \in 1..Len(entries) :
                i # j => /\ entries[i].roll_number # entries[j].roll_number
                         /\ entries[i].name # entries[j].name

\* C1 happens: a response naming Alice with roll number 1 met a partition of several
\* entries, which knew that name or that roll number, and the store stayed as it was
C1_DuplicateRefused ==
    /\ event.op = "response"
    /\ event.result = "recognized"
    /\ event.input.r.data = <<Identity("Alice", "1", 90, "Present")>>
    /\ user_email # NoVal
    /\ Len(PartitionOf(attendanceData[user_email], ISODate(clock))) >= 2
    /\ attendanceData = event.before.attendanceData

\* C2: no day-partition is ever longer than MaxEntries; and when one response brings
\* valid identities that no entry of a full partition shares, every new entry is
\* appended and as many entries leave from the front: the oldest by insertion go,
\* the others keep their order, the new ones follow
C2_FiftyNewestKept ==
    /\ \A u \in Users : \A d \in DOMAIN attendanceData[u] :
            Len(attendanceData[u][d]) <= MaxEntries
    /\ (/\ event.op = "response"
        /\ event.result = "recognized"
        /\ event.input.r.data = <<Identity("Zoe", "999", 90, "Present")>>
        /\ Len(PartitionOf(event.before.attendanceData[user_email], ISODate(clock)))
               = MaxEntries)
       => LET old == event.before.attendanceData[user_email][ISODate(clock)]
              now == attendanceData[user_email][ISODate(clock)]
          IN  /\ Len(now) = MaxEntries
              /\ \A i \in 1..(MaxEntries - 1) : now[i] = old[i + 1]
              /\ now[MaxEntries].name = "Zoe"
              /\ now[MaxEntries].roll_number = "999"
    /\ (/\ event.op = "response"
        /\ event.result = "recognized"
        /\ Len(event.input.r.data) > MaxEntries
        /\ PartitionOf(event.before.attendanceData[user_email], ISODate(clock)) = <<>>)
       => LET now == attendanceData[user_email][ISODate(clock)]
              data == event.input.r.data
          IN  /\ Len(now) = MaxEntries
              /\ \A i \in 1..MaxEntries :
                    now[i].roll_number = data[i + Len(data) - MaxEntries].roll_number

\* C2 happens: Zoe was added to a partition of MaxEntries entries
C2_FiftyFirstAdded ==
    /\ event.op = "response"
    /\ event.result = "recognized"
    /\ event.input.r.data = <<Identity("Zoe", "999", 90, "Present")>>
    /\ Len(PartitionOf(event.before.attendanceData[user_email], ISODate(clock))) = MaxEntries
    /\ attendanceData # event.before.attendanceData

\* C3: a tick that finds the flag set, however long ago the last recognition was,
\* or finds it clear with less than MinInterval ms elapsed, is denied: it takes no
\* screenshot, raises no toast, suspends no call, issues no request and leaves the
\* flag as it found it
C3_ThrottleDenies ==
    (/\ event.op = "tick"
     /\ \/ event.before.isRecognizingRef
        \/ clock - event.before.lastRecognitionRef < MinInterval)
    => /\ event.result = "denied"
       /\ event.toasts = <<>>
       /\ calls = event.before.calls
       /\ posts = event.before.posts
       /\ isRecognizingRef = event.before.isRecognizingRef

\* C3 happens: a tick was denied for the flag alone, MinInterval ms or more after
\* the last recognition
C3_DeniedWhileRecognizing ==
    /\ event.op = "tick"
    /\ event.result = "denied"
    /\ event.before.isRecognizingRef
    /\ clock - event.before.lastRecognitionRef >= MinInterval

\* C4: at most one POST /recognize is outstanding at any time, whatever the order
\* of ticks, slow or timed-out completions and unmounts and remounts of the camera
\* page
C4_OneRequestOutstanding ==
    Cardinality({c \in calls : c.phase = "post"}) <= 1

\* C5: every entry stored under an owner was recognized by a request sent with that
\* owner's token, whatever the order of logins, logouts and completions
C5_NoForeignEntry ==
    \A u \in Users : \A d \in DOMAIN attendanceData[u] :
        \A i \in 1..Len(attendanceData[u][d]) : attendanceData[u][d][i].by = u

\* C6: deleteAttendance changes nothing in the store before its request has been
\* answered, and when the request fails (no response, a timeout, a status outside
\* 2xx) it returns false, the failure toast is raised and the stored map is what it
\* was
C6_FailedDeleteKeepsStore ==
    /\ event.op = "delete" =>
            /\ attendanceData = event.before.attendanceData
            /\ user_email = event.before.user_email
    /\ (/\ event.op = "delete response"
        /\ \/ event.input.r.kind = "none"
           \/ event.input.r.status \notin 200..299)
       => /\ event.result = "failed"
          /\ event.toasts = <<DeleteToast(FALSE)>>
          /\ attendanceData = event.before.attendanceData
          /\ user_email = event.before.user_email

\* C6 happens: the request came back with status 500, and the entry whose deletion
\* was asked for is still in the partition of its owner
C6_DeleteFailed ==
    /\ event.op = "delete response"
    /\ event.input.r.status = 500
    /\ event.result = "failed"
    /\ \E i \in 1..Len(PartitionOf(attendanceData[event.input.d.userEmail], ISODate(clock))) :
          attendanceData[event.input.d.userEmail][ISODate(clock)][i].roll_number
              = event.input.d.rollNumber

\* C7: a response to the deletion request whose body does not carry status
\* "success" makes deleteAttendance return false and leaves the store unchanged
C7_OnlyConfirmedSuccess ==
    (/\ event.op = "delete response"
     /\ event.input.r.data_status # "success")
    => /\ event.result = "failed"
       /\ attendanceData = event.before.attendanceData

\* C8: when the token is missing at the moment captureAndRecognize reads it, the
\* attempt ends with one error toast, no POST /recognize is issued, the store and
\* lastRecognitionRef are what they were and the flag of the instance is clear
C8_NoTokenNoRequest ==
    (/\ event.op = "blob"
     /\ event.input.fetched
     /\ token = NoVal)
    => /\ event.toasts = <<Toast("error", "No authentication token found. Please log in again.")>>
       /\ posts = event.before.posts
       /\ \A c \in calls : c.phase = "post" => c \in event.before.calls
       /\ attendanceData = event.before.attendanceData
       /\ lastRecognitionRef = event.before.lastRecognitionRef
       /\ event.input.c.inst = inst => ~isRecognizingRef

\* C8 happens: an attempt that had set the flag found no token
C8_TokenMissing ==
    /\ event.op = "blob"
    /\ event.result = "no token"
    /\ token = NoVal
    /\ event.before.isRecognizingRef
    /\ ~isRecognizingRef

\* C9: with the flag clear, a tick is denied exactly when less than MinInterval ms
\* have passed since lastRecognitionRef: the first call of an instance
\* (lastRecognitionRef still 0) is permitted, and after a recognition that began at
\* T a call at T + 9999 is denied and a call at T + 10000 is permitted
C9_IntervalBoundary ==
    (/\ event.op = "tick"
     /\ ~event.before.isRecognizingRef)
    => /\ event.before.lastRecognitionRef = 0 => event.result # "denied"
       /\ clock - event.before.lastRecognitionRef = MinInterval - 1
              => event.result = "denied"
       /\ clock - event.before.lastRecognitionRef = MinInterval
              => event.result # "denied"
       /\ event.result = "denied"
              <=> clock - event.before.lastRecognitionRef < MinInterval

\* C9 happens: the first call was made at StartClock and its recognition completed,
\* and the call made exactly MinInterval ms after it was permitted
C9_PermittedAtTenSeconds ==
    /\ event.op = "tick"
    /\ event.result = "granted"
    /\ event.before.lastRecognitionRef = StartClock
    /\ clock = StartClock + MinInterval

\* C10: the flag is set only while an invocation of the mounted instance is
\* suspended at an await, and a set flag is always cleared again: every way
\* captureAndRecognize ends passes through the reset
C10_FlagReleased ==
    /\ [](isRecognizingRef => \E c \in calls : c.inst = inst)
    /\ (isRecognizingRef ~> ~isRecognizingRef)

\* C10 happens: a request ran into its timeout and the flag it held was cleared
C10_ReleasedOnTimeout ==
    /\ event.op = "response"
    /\ event.input.r.http = "timeout"
    /\ event.before.isRecognizingRef
    /\ ~isRecognizingRef

\* C11: lastRecognitionRef is written only when a request ends with a list of
\* identities, empty or not, and then holds the Date.now() the attempt read; a
\* denied tick, a tick without an image, a missing token, a failed fetch and every
\* other end of the request leave it as it was
C11_StampedOnListOnly ==
    /\ (/\ event.op \in {"tick", "blob", "response"}
        /\ ~(event.op = "response" /\ event.input.r.kind = "array"))
       => lastRecognitionRef = event.before.lastRecognitionRef
    /\ (/\ event.op = "response"
        /\ event.input.r.kind = "array"
        /\ event.input.c.inst = inst)
       => lastRecognitionRef = event.input.c.now

\* C11 happens: a request answered with the empty list moved lastRecognitionRef
C11_StampedOnEmptyList ==
    /\ event.op = "response"
    /\ event.input.r.kind = "array"
    /\ event.input.r.data = <<>>
    /\ lastRecognitionRef = event.input.c.now
    /\ lastRecognitionRef # event.before.lastRecognitionRef

\* C12: within a session (from one login to the next) no step lowers
\* lastRecognitionRef, an unmount and remount of the camera page included
C12_NeverLowered ==
    event.op # "login" => lastRecognitionRef >= event.before.lastRecognitionRef

\* C13: cleanupOldData() with its default of 7 days, run at any time of day,
\* removes the partition dated 8 days before today and keeps the partition dated
\* 6 days before today
C13_EightGoesSixStays ==
    (/\ event.op = "cleanup"
     /\ user_email # NoVal)
    => LET today == ISODate(clock)
           was == event.before.attendanceData[user_email]
           is == attendanceData[user_email]
       IN  /\ today - 8 \notin DOMAIN is
           /\ today - 6 \in DOMAIN was
                  => /\ today - 6 \in DOMAIN is
                     /\ is[today - 6] = was[today - 6]

\* C13 happens: a clean-up met a partition 8 days old and one 6 days old, removed
\* the first and kept the second
C13_CleanedUp ==
    /\ event.op = "cleanup"
    /\ ISODate(clock) - 8 \in DOMAIN event.before.attendanceData[user_email]
    /\ ISODate(clock) - 6 \in DOMAIN event.before.attendanceData[user_email]
    /\ ISODate(clock) - 8 \notin DOMAIN attendanceData[user_email]
    /\ ISODate(clock) - 6 \in DOMAIN attendanceData[user_email]

\* C14 as claimed: cleanupOldData(days) removes exactly the partitions dated before
\* today - days, keeps the one dated today - days at any time of day, and returns
\* the number of partitions it removed
C14_PrecedesAndCounts ==
    (/\ event.op = "cleanup"
     /\ user_email # NoVal)
    => LET today == ISODate(clock)
           was == event.before.attendanceData[user_email]
           is == attendanceData[user_email]
       IN  /\ DOMAIN is = {d \in DOMAIN was : d >= today - event.input}
           /\ event.result # NoVal
           /\ event.result = Cardinality(DOMAIN was \ DOMAIN is)

\* C14 as the code has it: cleanupOldData(days) removes exactly the partitions for
\* which more than days * 24 h have passed since 00:00 UTC of their date, so the
\* partition dated today - days goes too unless the call runs at 00:00:00.000 UTC
\* sharp; the partitions kept are untouched and the call returns nothing
C14_OlderThanDaysOfHours ==
    (/\ event.op = "cleanup"
     /\ user_email # NoVal)
    => LET today == ISODate(clock)
           was == event.before.attendanceData[user_email]
           is == attendanceData[user_email]
           midnight == clock = today * DayMs
       IN  /\ DOMAIN is = {d \in DOMAIN was :
                              \/ d > today - event.input
                              \/ d = today - event.input /\ midnight}
           /\ \A d \in DOMAIN is : is[d] = was[d]
           /\ event.result = NoVal

\* C14 happens: a clean-up run after midnight removed the partition dated exactly
\* DaysToKeep days before today
C14_SeventhDayRemoved ==
    /\ event.op = "cleanup"
    /\ clock # ISODate(clock) * DayMs
    /\ ISODate(clock) - DaysToKeep \in DOMAIN event.before.attendanceData[user_email]
    /\ ISODate(clock) - DaysToKeep \notin DOMAIN attendanceData[user_email]

\* C15: addFace of an identity whose roll_number or whose name is that of an entry
\* of today's partition returns no entry and leaves localStorage as it is, in every
\* state the store reaches and for every identity the recognizer names; a response
\* made of one such identity changes nothing and raises no error toast
C15_DuplicateSkipped ==
    /\ user_email # NoVal =>
          \A data \in RecognizedLists(roster) : \A i \in 1..Len(data) :
              LET recognizedFace == RecognizedFace(data[i], clock, tz, token)
                  entries == PartitionOf(attendanceData[user_email], ISODate(clock))
              IN  (\E k \in 1..Len(entries) :
                       \/ entries[k].roll_number = recognizedFace.roll_number
                       \/ entries[k].name = recognizedFace.name)
                  => AddFace(Storage, recognizedFace, clock, tz)
                         = [ls |-> Storage, ret |-> <<>>]
    /\ (/\ event.op = "response"
        /\ event.result = "recognized"
        /\ Len(event.input.r.data) = 1
        /\ event.before.user_email # NoVal
        /\ LET was == PartitionOf(event.before.attendanceData[event.before.user_email],
                                  ISODate(clock))
           IN  \E k \in 1..Len(was) :
                   \/ was[k].roll_number = event.input.r.data[1].roll_number
                   \/ was[k].name = event.input.r.data[1].name)
       => /\ attendanceData = event.before.attendanceData
          /\ \A k \in 1..Len(event.toasts) : event.toasts[k].type = "success"

\* C15 happens: Alice was stored with roll number 3, a response named Alice with
\* roll number 1, and the partition is what it was
C15_SameNameOtherRoll ==
    /\ event.op = "response"
    /\ event.result = "recognized"
    /\ event.input.r.data = <<Identity("Alice", "1", 90, "Present")>>
    /\ user_email # NoVal
    /\ LET entries == PartitionOf(attendanceData[user_email], ISODate(clock))
       IN  /\ \E k \in 1..Len(entries) :
                  entries[k].name = "Alice" /\ entries[k].roll_number = "3"
           /\ \A k \in 1..Len(entries) : entries[k].roll_number # "1"
    /\ attendanceData = event.before.attendanceData

\* C16: a reload leaves the stored map and its owner key as they were and resets
\* only what lives in memory: the suspended calls are gone, the throttle of the new
\* camera page starts afresh, and the list it displays holds exactly the entries
\* today's partition held before the reload
C16_StoreSurvivesReload ==
    event.op = "reload"
    => /\ attendanceData = event.before.attendanceData
       /\ user_email = event.before.user_email
       /\ calls = {}
       /\ page = "camera"
             => LET was == PartitionOf(event.before.attendanceData[event.before.user_email],
                                       ISODate(clock))
                IN  /\ lastRecognitionRef = 0
                    /\ ~isRecognizingRef
                    /\ Len(todaysFaces) = Len(was)
                    /\ {todaysFaces[i] : i \in 1..Len(todaysFaces)}
                           = {was[i] : i \in 1..Len(was)}

\* C16 happens: the camera page was reloaded after a recognition, with several
\* entries stored for today
C16_ReloadedWithEntries ==
    /\ event.op = "reload"
    /\ page = "camera"
    /\ event.before.lastRecognitionRef # 0
    /\ lastRecognitionRef = 0
    /\ Len(todaysFaces) >= 2

\* C17: a request that gets no response, through a network failure or through its
\* 10000 ms timeout, raises exactly one toast, of type error, adds nothing to the
\* store and leaves lastRecognitionRef as it was
C17_NoResponseIsOneError ==
    (/\ event.op = "response"
     /\ event.input.r.kind = "none")
    => /\ event.toasts = <<Toast("error", "No response from server. Check your connection.")>>
       /\ attendanceData = event.before.attendanceData
       /\ lastRecognitionRef = event.before.lastRecognitionRef

\* C17 happens: a network failure ended a request of the mounted instance
C17_NetworkFailure ==
    /\ event.op = "response"
    /\ event.input.r.http = "network"
    /\ event.input.c.inst = inst
    /\ Len(event.toasts) = 1
    /\ ~isRecognizingRef

\* C18: a response that carries an error status tag raises the notification of its
\* tag (the server's message for any other tag), with an HTTP success code as with
\* an HTTP error code, and adds nothing to the store
C18_TagDecidesOutcome ==
    (/\ event.op = "response"
     /\ event.input.r.kind = "object"
     /\ event.input.r.status # NoVal)
    => /\ event.toasts = <<HandleRecognitionError(event.input.r.status, event.input.r.error)>>
       /\ attendanceData = event.before.attendanceData

\* C19 as claimed: the notifications for no_students_registered, no_face_encodings,
\* face_not_recognized and face_detection_failed are all of type warning
C19_FourWarnings ==
    /\ (/\ event.op = "response"
        /\ event.input.r.kind = "object"
        /\ event.input.r.http = "error"
        /\ event.input.r.status \in {"no_students_registered", "no_face_encodings",
                                     "face_not_recognized", "face_detection_failed"})
       => /\ Len(event.toasts) = 1
          /\ event.toasts[1].type = "warning"
    /\ (event.op = "tick" /\ event.result = "no image")
       => /\ Len(event.toasts) = 1
          /\ event.toasts[1].type = "warning"

\* C19 as the code has it: the notifications raised for no_students_registered,
\* no_face_encodings and face_not_recognized are of type warning; the one raised
\* for face_detection_failed, by the server's tag or by a screenshot that failed,
\* is of type error
C19_ThreeWarningsOneError ==
    /\ (/\ event.op = "response"
        /\ event.input.r.kind = "object"
        /\ event.input.r.http = "error"
        /\ event.input.r.status \in {"no_students_registered", "no_face_encodings",
                                     "face_not_recognized"})
       => /\ Len(event.toasts) = 1
          /\ event.toasts[1].type = "warning"
    /\ (/\ event.op = "response"
        /\ event.input.r.kind = "object"
        /\ event.input.r.http = "error"
        /\ event.input.r.status = "face_detection_failed")
       => event.toasts =
             <<Toast("error", "No face detected. Please ensure your face is clearly visible.")>>
    /\ (event.op = "tick" /\ event.result = "no image")
       => event.toasts =
             <<Toast("error", "No face detected. Please ensure your face is clearly visible.")>>
    /\ \A k \in 1..Len(event.toasts) :
          event.toasts[k].type = "warning"
             => event.toasts[k].message \in
                   {"No students registered. Please add students first.",
                    "No student faces registered. Please register student faces.",
                    "Face not recognized. Please register this student."}

\* C19 happens: the server answered with the tag face_detection_failed and the
\* toast raised for it is an error
C19_DetectionFailedIsError ==
    /\ event.op = "response"
    /\ event.input.r.kind = "object"
    /\ event.input.r.status = "face_detection_failed"
    /\ Len(event.toasts) = 1
    /\ event.toasts[1].type = "error"

\* C20: every end of a granted attempt is either a recognized list or exactly one
\* failure notification; none passes in silence
C20_OneOutcomeEach ==
    (\/ event.op \in {"blob", "response"} /\ event.result # "sent"
     \/ event.op = "tick" /\ event.result = "no image")
    => \/ event.result = "recognized"
       \/ /\ Len(event.toasts) = 1
          /\ event.toasts[1].type \in {"error", "warning"}

C22_DefaultsOfAdd ==
    (event.op = "response" /\ event.result = "recognized") =>
        LET today == ISODate(clock)
            old == PartitionOf(event.before.attendanceData[user_email], today)
            new == PartitionOf(attendanceData[user_email], today)
        IN  \A i \in (Len(old) + 1)..Len(new) : \A k \in 1..Len(event.input.r.data) :
                new[i].roll_number = event.input.r.data[k].roll_number =>
                    /\ event.input.r.data[k].confidence = NoNum => new[i].confidence = 0
                    /\ event.input.r.data[k].status = NoVal => new[i].status = "Recognized"

\* C23: every entry stored in the partition keyed by day d has a timestamp that
\* shows day d
C23_KeyIsDayOfStamp ==
    \A u \in Users : \A d \in DOMAIN attendanceData[u] :
        \A i \in 1..Len(attendanceData[u][d]) :
            LocalDayOfStamp(attendanceData[u][d][i].timestamp) = d

\* C24: a request answered with the empty list ends as a success with nothing
\* recognized: no notification of any kind, the stored maps and the owner as they
\* were, and, in the instance that sent it, lastRecognitionRef at the time the
\* attempt began and isRecognizingRef false
C24_EmptyListIsSuccess ==
    (/\ event.op = "response"
     /\ event.input.r.kind = "array"
     /\ event.input.r.data = <<>>)
    => /\ event.result = "recognized"
       /\ event.toasts = <<>>
       /\ attendanceData = event.before.attendanceData
       /\ user_email = event.before.user_email
       /\ event.input.c \notin calls
       /\ event.input.c.inst = inst =>
              /\ lastRecognitionRef = event.input.c.now
              /\ ~isRecognizingRef

\* C24 happens: the empty list came back to the mounted instance while its flag
\* was up and entries were in the store; the flag is down again
C24_EmptyListReleased ==
    /\ event.op = "response"
    /\ event.input.r.kind = "array"
    /\ event.input.r.data = <<>>
    /\ event.input.c.inst = inst
    /\ event.before.isRecognizingRef
    /\ ~isRecognizingRef
    /\ \E u \in Users : \E d \in DOMAIN attendanceData[u] : attendanceData[u][d] # <<>>

\* C25: captureAndRecognize never sends a request again by itself.  There are
\* never more POST /recognize than granted ticks; a request is issued only by the
\* invocation a granted tick started, one per invocation; a response, failed or
\* not, ends its invocation and starts none; and an invocation begins only on a
\* tick that found the flag down and MinInterval elapsed
C25_NoRetry ==
    LET Started(cs) == {<<c.inst, c.now>> : c \in cs}
    IN  /\ posts <= granted
        /\ posts # event.before.posts =>
               /\ event.op = "blob"
               /\ event.result = "sent"
               /\ posts = event.before.posts + 1
               /\ event.input.c \in event.before.calls
               /\ event.input.c.phase = "blob"
        /\ event.op = "response" =>
               /\ event.input.c.phase = "post"
               /\ calls = event.before.calls \ {event.input.c}
        /\ ~(Started(calls) \subseteq Started(event.before.calls)) =>
               /\ event.op = "tick"
               /\ ~event.before.isRecognizingRef
               /\ clock - event.before.lastRecognitionRef >= MinInterval
               /\ Cardinality(calls) = Cardinality(event.before.calls) + 1

\* C25 happens: the first instance was granted two attempts, sent two requests
\* one after the other, and neither succeeded; the second has just failed
C25_FailedTwice ==
    /\ event.op = "response"
    /\ event.result \in {"no response", "error response"}
    /\ inst = 1
    /\ lastRecognitionRef = 0
    /\ granted = 2
    /\ posts = 2
    /\ calls = {}

\* C26: a tick is denied exactly when the flag is up or less than MinInterval has
\* passed since lastRecognitionRef, and a denied tick does nothing that can be
\* seen: no notification, lastRecognitionRef, isRecognizingRef, the stored maps,
\* the owner, the list on display and the invocations under way all as they were
C26_DeniedTickIsSilent ==
    event.op = "tick" =>
        /\ event.result = "denied" <=>
               \/ event.before.isRecognizingRef
               \/ clock - event.before.lastRecognitionRef < MinInterval
        /\ event.result = "denied" =>
               /\ event.toasts = <<>>
               /\ lastRecognitionRef = event.before.lastRecognitionRef
               /\ isRecognizingRef = event.before.isRecognizingRef
               /\ attendanceData = event.before.attendanceData
               /\ user_email = event.before.user_email
               /\ calls = event.before.calls
               /\ posts = event.before.posts

\* C26 happens: with the flag down and entries in the store, a tick came less
\* than MinInterval after a recognition and was denied
C26_DeniedForTheInterval ==
    /\ event.op = "tick"
    /\ event.result = "denied"
    /\ ~event.before.isRecognizingRef
    /\ event.before.lastRecognitionRef > 0
    /\ clock - event.before.lastRecognitionRef < MinInterval
    /\ \E u \in Users : \E d \in DOMAIN attendanceData[u] : attendanceData[u][d] # <<>>

\* C27: getTodaysFaces returns the entries of today's partition of the owner, each
\* of them once, the most recent timestamp first; without an owner it returns the
\* empty list
C27_TodayNewestFirst ==
    LET listed == GetTodaysFaces(Storage, clock, tz)
        stored == IF user_email = NoVal
                  THEN <<>>
                  ELSE PartitionOf(attendanceData[user_email], ISODate(clock))
    IN  /\ Len(listed) = Len(stored)
        /\ \A e \in {stored[i] : i \in 1..Len(stored)} :
               Cardinality({i \in 1..Len(listed) : listed[i] = e})
                   = Cardinality({i \in 1..Len(stored) : stored[i] = e})
        /\ \A i, j \in 1..Len(listed) :
               i < j => listed[i].timestamp >= listed[j].timestamp
        /\ GetTodaysFaces([Storage EXCEPT !.user_email = NoVal], clock, tz) = <<>>

\* C28: getTodaysFaces writes nothing.  A mount of the camera page (after a login,
\* a page switch or a reload), which only lists, leaves every partition with its
\* entries in the order they were stored; in any state a call leaves localStorage
\* as it is, and a second call right after it returns the list the first returned,
\* which is the list a mount has just put on display
C28_ListingWritesNothing ==
    LET once == AfterGetTodaysFaces(Storage, clock, tz)
    IN  /\ event.op \in {"login", "camera", "reload"} =>
               attendanceData = event.before.attendanceData
        /\ once = Storage
        /\ GetTodaysFaces(once, clock, tz) = GetTodaysFaces(Storage, clock, tz)
        /\ (event.op \in {"login", "camera", "reload"} /\ page = "camera") =>
               todaysFaces = GetTodaysFaces(once, clock, tz)

\* C28 happens: a reload listed a partition whose stored order is not the order
\* of the list, and the partition is stored as before
C28_ListedOutOfStoredOrder ==
    /\ event.op = "reload"
    /\ page = "camera"
    /\ user_email # NoVal
    /\ Len(todaysFaces) > 1
    /\ todaysFaces # PartitionOf(attendanceData[user_email], ISODate(clock))
    /\ attendanceData = event.before.attendanceData

\* C29: when deleteAttendance(r) returns true, today's partition of the user who
\* asked holds no entry with roll number r and holds every other entry it held,
\* in the order it held them; every other partition of that user and every
\* partition of every other user is what it was
C29_DeleteRemovesRollOnly ==
    (event.op = "delete response" /\ event.result = "deleted") =>
        LET owner == event.input.d.userEmail
            r == event.input.d.rollNumber
            today == ISODate(clock)
            was == event.before.attendanceData
        IN  \A u \in Users :
                /\ DOMAIN attendanceData[u] = DOMAIN was[u]
                /\ \A day \in DOMAIN was[u] :
                       LET old == was[u][day]
                           new == attendanceData[u][day]
                       IN  IF u = owner /\ day = today
                           THEN /\ \A i \in 1..Len(new) : new[i].roll_number # r
                                /\ Len(new) = Cardinality({i \in 1..Len(old) :
                                                              old[i].roll_number # r})
                                /\ \A i, j \in 1..Len(new) : i < j =>
                                       \E a, b \in 1..Len(old) :
                                           a < b /\ old[a] = new[i] /\ old[b] = new[j]
                                /\ Len(new) = 1 => \E a \in 1..Len(old) : old[a] = new[1]
                           ELSE new = old

\* C29 happens: a delete took one entry out of a partition of several while the
\* partition of another day held entries too
C29_DeletedAmongOthers ==
    /\ event.op = "delete response"
    /\ event.result = "deleted"
    /\ LET owner == event.input.d.userEmail
           today == ISODate(clock)
       IN  /\ today \in DOMAIN attendanceData[owner]
           /\ Len(attendanceData[owner][today]) >= 2
           /\ Len(event.before.attendanceData[owner][today])
                  = Len(attendanceData[owner][today]) + 1
           /\ \E day \in DOMAIN attendanceData[owner] :
                  day # today /\ attendanceData[owner][day] # <<>>

\* C30: a response whose identities are added changes at most today's partition
\* of the owner: every other day-partition of the owner, however old, and every
\* partition of every other user is stored as it was, and no step but
\* cleanupOldData ever removes a day-partition
C30_AddWritesTodayOnly ==
    LET was == event.before.attendanceData
    IN  /\ event.op = "response" =>
               \A u \in Users :
                   /\ DOMAIN attendanceData[u] \subseteq
                          DOMAIN was[u] \cup (IF u = user_email THEN {ISODate(clock)} ELSE {})
                   /\ \A day \in DOMAIN was[u] :
                          (u # user_email \/ day # ISODate(clock)) =>
                              /\ day \in DOMAIN attendanceData[u]
                              /\ attendanceData[u][day] = was[u][day]
        /\ (\E u \in Users : ~(DOMAIN was[u] \subseteq DOMAIN attendanceData[u])) =>
               event.op = "cleanup"

\* C30 happens: an entry was added to today's partition while a partition older
\* than DaysToKeep days was in the store, and that partition is still there
C30_AddedBesideOldPartition ==
    /\ event.op = "response"
    /\ event.result = "recognized"
    /\ Len(PartitionOf(attendanceData[user_email], ISODate(clock)))
           > Len(PartitionOf(event.before.attendanceData[user_email], ISODate(clock)))
    /\ \E day \in DOMAIN attendanceData[user_email] :
           /\ clock - DateOfKey(day) > DaysToKeep * DayMs
           /\ attendanceData[user_email][day] # <<>>

\* C31: no update is lost between a recognition and a delete that overlap.  When
\* deleteAttendance(r) returns true, every entry with another roll number that
\* was stored while its request was under way is in the store, and today's
\* partition of the user who asked holds no entry with roll number r; and while
\* the request is under way the entries a recognition adds are stored at once
C31_NoLostUpdate ==
    /\ (event.op = "delete response" /\ event.result = "deleted") =>
           LET d == event.input.d
               today == PartitionOf(attendanceData[d.userEmail], ISODate(clock))
           IN  /\ \A e \in d.since :
                      e.roll_number # d.rollNumber => e \in EntriesOf(attendanceData)
               /\ \A i \in 1..Len(today) : today[i].roll_number # d.rollNumber
    /\ \A d \in deletes : \A e \in d.since :
           e.roll_number # d.rollNumber => e \in EntriesOf(attendanceData)

\* C31 happens: a delete returned true after a recognition had, while the request
\* was under way, stored an entry with another roll number; the entry is there
C31_AddedWhileDeleting ==
    /\ event.op = "delete response"
    /\ event.result = "deleted"
    /\ \E e \in event.input.d.since :
          /\ e.roll_number # event.input.d.rollNumber
          /\ e \in EntriesOf(attendanceData)
    /\ \E i \in 1..Len(PartitionOf(event.before.attendanceData[event.input.d.userEmail],
                                   ISODate(clock))) :
          event.before.attendanceData[event.input.d.userEmail][ISODate(clock)][i].roll_number
              = event.input.d.rollNumber

\* C32: every stored entry has a name that is not empty once trimmed and a roll
\* number that is not empty
C32_NameAndRollPresent ==
    LET Blank(text) == text \in {NoVal, "", " ", "  "}
    IN  \A e \in EntriesOf(attendanceData) :
            /\ ~Blank(e.name)
            /\ ~Falsy(e.roll_number)

\* C33: addFace takes the owner from 'user_email'; when that key is not set and
\* the face is valid it sets the key from the stored user and writes under that
\* owner; when neither is there it returns nothing and writes nothing.  Whatever
\* it writes goes into today's partition of the owner, no other map changes
C33_LazyOwner ==
    event.op = "addFace" =>
        LET face == event.input
            was == event.before.attendanceData
            valid == ~Falsy(face.name) /\ ~Falsy(face.roll_number)
            owner == IF event.before.user_email # NoVal THEN event.before.user_email ELSE user
        IN  /\ ~valid => /\ event.result = <<>>
                         /\ attendanceData = was
                         /\ user_email = event.before.user_email
            /\ (valid /\ owner = NoVal) =>
                   /\ event.result = <<>>
                   /\ attendanceData = was
                   /\ user_email = NoVal
            /\ (valid /\ owner # NoVal) =>
                   /\ user_email = owner
                   /\ \A u \in Users \ {owner} : attendanceData[u] = was[u]
                   /\ IF IsDuplicate(PartitionOf(was[owner], ISODate(clock)), face)
                      THEN event.result = <<>> /\ attendanceData = was
                      ELSE /\ Len(event.result) = 1
                           /\ attendanceData[owner][ISODate(clock)]
                                  = Append(PartitionOf(was[owner], ISODate(clock)),
                                           event.result[1])

\* C33 happens: with no 'user_email' in storage, a face was stored under the
\* e-mail of the stored user, which is now the value of 'user_email'
C33_OwnerSetOnAdd ==
    /\ event.op = "addFace"
    /\ event.before.user_email = NoVal
    /\ user # NoVal
    /\ user_email = user
    /\ Len(event.result) = 1
    /\ Len(PartitionOf(attendanceData[user], ISODate(clock))) >= 1

\* C34: deleteAttendance called with no roll number, or with no token or no
\* 'user_email' in storage, returns false before it sends anything: no request
\* of this call is under way afterwards, and the maps and the owner are as they
\* were; in every other case the request is sent
C34_RefusedBeforeSending ==
    event.op = "delete" =>
        /\ event.result = "refused" <=>
               \/ Falsy(event.input)
               \/ event.before.user_email = NoVal
               \/ token = NoVal
        /\ event.result = "refused" =>
               /\ \A d \in deletes : d.id # deleteCalls
               /\ event.toasts = <<DeleteToast(FALSE)>>
               /\ attendanceData = event.before.attendanceData
               /\ user_email = event.before.user_email
        /\ event.result # "refused" =>
               \E d \in deletes : d.id = deleteCalls /\ d.rollNumber = event.input

\* C34 happens: with an owner, an entry of roll number "1" in today's partition
\* but no token in storage, deleteAttendance("1") was refused
C34_RefusedForNoToken ==
    /\ event.op = "delete"
    /\ event.result = "refused"
    /\ event.input = "1"
    /\ token = NoVal
    /\ user_email # NoVal
    /\ \E i \in 1..Len(PartitionOf(attendanceData[user_email], ISODate(clock))) :
          attendanceData[user_email][ISODate(clock)][i].roll_number = "1"

\* C35: at most one POST /delete_attendance per roll number is under way at a
\* time in the mounted instance
C35_OneDeletePerRoll ==
    \A d1, d2 \in deletes :
        (d1.rollNumber = d2.rollNumber /\ d1.inst = inst /\ d2.inst = inst) => d1 = d2

\* C36: a deletion leaves nothing behind that keeps the person out.  A delete
\* that returned true leaves no entry of roll number r in today's partition, and
\* a list response stores every identity with a name and a roll number that
\* neither today's partition nor an earlier identity of the same list holds,
\* whatever was deleted before; the mounted instance that asked shows it
C36_DeletionNotSticky ==
    /\ (event.op = "delete response" /\ event.result = "deleted") =>
           LET today == PartitionOf(attendanceData[event.input.d.userEmail], ISODate(clock))
           IN  \A i \in 1..Len(today) : today[i].roll_number # event.input.d.rollNumber
    /\ (event.op = "response" /\ event.result = "recognized") =>
           LET data == event.input.r.data
               face(k) == RecognizedFace(data[k], clock, tz, event.input.c.token)
               old == PartitionOf(event.before.attendanceData[user_email], ISODate(clock))
               new == PartitionOf(attendanceData[user_email], ISODate(clock))
               Holds(list, f) == \E i \in 1..Len(list) :
                                     list[i].roll_number = f.roll_number /\ list[i].name = f.name
           IN  \A k \in 1..Len(data) :
                   (/\ ~Falsy(face(k).name)
                    /\ ~Falsy(face(k).roll_number)
                    /\ ~IsDuplicate(old, face(k))
                    /\ \A j \in 1..(k - 1) :
                           /\ face(j).roll_number # face(k).roll_number
                           /\ face(j).name # face(k).name)
                   => /\ Holds(new, face(k))
                      /\ (event.input.c.inst = inst /\ page = "camera") =>
                             Holds(todaysFaces, face(k))

\* C36 happens: today's partition was there without roll number "1", as only a
\* delete of "1" leaves it (every list that names somebody names "1" first), and
\* a list response has stored "1" again and put it on display
C36_DeletedReappears ==
    /\ event.op = "response"
    /\ event.result = "recognized"
    /\ ISODate(clock) \in DOMAIN event.before.attendanceData[user_email]
    /\ \A i \in 1..Len(event.before.attendanceData[user_email][ISODate(clock)]) :
          event.before.attendanceData[user_email][ISODate(clock)][i].roll_number # "1"
    /\ \E i \in 1..Len(attendanceData[user_email][ISODate(clock)]) :
          attendanceData[user_email][ISODate(clock)][i].roll_number = "1"
    /\ \E i \in 1..Len(todaysFaces) : todaysFaces[i].roll_number = "1"

\* C37: a list response raises one success toast and one call of onRecognizedFace
\* for each of its elements, in the order of the list, with the name the element
\* carries ("Unknown" for none), whether addFace stored the identity, skipped it
\* as a duplicate or turned it away as invalid
C37_OncePerIdentity ==
    (event.op = "response" /\ event.result = "recognized") =>
        LET data == event.input.r.data
            shown(k) == IF Falsy(data[k].name) THEN "Unknown" ELSE data[k].name
        IN  /\ Len(event.toasts) = Len(data)
            /\ Len(event.input.callbacks) = Len(data)
            /\ \A k \in 1..Len(data) :
                   /\ event.toasts[k] = Toast("success", "Recognized: " \o shown(k))
                   /\ event.input.callbacks[k].name = shown(k)
                   /\ event.input.callbacks[k].roll_number =
                          (IF Falsy(data[k].roll_number) THEN "" ELSE data[k].roll_number)

\* C37 happens: a list of six raised six toasts and six calls although today's
\* partition, which held an entry already, took fewer than six new entries
C37_ToastForSkipped ==
    /\ event.op = "response"
    /\ event.result = "recognized"
    /\ Len(event.toasts) = 6
    /\ Len(event.input.callbacks) = 6
    /\ Len(PartitionOf(event.before.attendanceData[user_email], ISODate(clock))) > 0
    /\ Len(PartitionOf(attendanceData[user_email], ISODate(clock)))
           < Len(PartitionOf(event.before.attendanceData[user_email], ISODate(clock))) + 6

\* C38: in a session (a token in storage since the login), a valid registration
\* form that is submitted finds the token and its POST /register is sent
C38_RegistrationFindsToken ==
    (/\ event.op = "submit"
     /\ event.input
     /\ token # NoVal)
    => /\ event.result = "sent"
       /\ event.toasts = <<>>

====
